---- MODULE Spec2Model ----
(***************************************************************************)
(* Model of the three service variants of the repository:                  *)
(*   "app" : src/app/main.py       (CustomFastAPI, GET /ping)              *)
(*   "v1"  : src/test_1/main_v1.py (plain FastAPI, GET /health)            *)
(*   "v2"  : src/test_2/main_v2.py (AppFactory, GET /health)               *)
(* State: the dependency-override table of the application, the lifespan   *)
(* position, the heap of service instances with their mutable fields, and  *)
(* for every request its position in the dependency chain, the instances   *)
(* it resolved, the lines it logged and its response body.                 *)
(*                                                                         *)
(* Scheduling: every dependency function and the endpoint are coroutines   *)
(* the framework calls one after another for a request; the model lets     *)
(* the requests in flight interleave between these calls and nowhere       *)
(* inside one.  The lifespan runs its startup and shutdown halves only     *)
(* while no request is in flight.                                          *)
(***************************************************************************)
EXTENDS Integers, Sequences, FiniteSets, TLC

VARIABLES
    variant,               \* which of the three applications runs
    dependency_overrides,  \* app.dependency_overrides: provider -> instance its factory returns
    lifespan,              \* "down" (before startup / after shutdown) or "up" (at the yield)
    starts,                \* number of lifespan startups so far
    built,                 \* the instances the latest startup constructed, by provider
    heap,                  \* sequence of service instances; the index is the object identity
    arrived,               \* number of requests received so far
    pc,                    \* request -> position in the dependency chain
    hdr,                   \* request -> value of its debug header
    deps,                  \* request -> the instances the providers resolved for it
    viaOverride,           \* request -> whether its top-level service came from the override
    heapAt,                \* request -> Len(heap) when its providers were resolved
    epoch,                 \* request -> value of starts when its providers were resolved
    ctx,                   \* request -> the context its fetch step read
    logs,                  \* request -> debug lines its fetch step logged
    resp,                  \* request -> response body
    boundDuring,           \* request -> requests that bound a context on an instance it
                           \*            uses, between its own base binding and its fetch step
    call                   \* last direct call on the classes or the table (library level)

vars == <<variant, dependency_overrides, lifespan, starts, built, heap, arrived,
          pc, hdr, deps, viaOverride, heapAt, epoch, ctx, logs, resp,
          boundDuring, call>>

reqVars == <<arrived, pc, hdr, deps, viaOverride, heapAt, epoch, ctx, logs, resp,
             boundDuring>>
lifeVars == <<lifespan, starts, built>>

-----------------------------------------------------------------------------
(* Bounds *)

MaxReq == 2
MaxStarts == 2
MaxInst == 2      \* instances constructed directly (library level)
MaxFactory == 2   \* distinct factories a table under test may hold

Requests == 1..MaxReq

-----------------------------------------------------------------------------
(* Values *)

NoRequest == 0
NoHeader == "<None>"
NoParams == "<None>"
NoResponse == <<>>
NoCall == [op |-> "none"]

HeaderValues == {NoHeader, "", "alpha", "beta"}
QueryParams == {"query"}
LifespanParams == "Alex from lifespan"

Variants == {"app", "v1", "v2"}

AppProviders == {"provide_base_service_singleton",
                 "provide_audit_service_singleton",
                 "provide_analytics_service_singleton"}
V2Providers == {"di_data_service"}

Providers(v) ==
    IF v = "app" THEN AppProviders ELSE IF v = "v2" THEN V2Providers ELSE {}

TopProvider(v) ==
    IF v = "app" THEN "provide_analytics_service_singleton" ELSE "di_data_service"

-----------------------------------------------------------------------------
(* dict operations used on dependency_overrides *)

EmptyTable == [k \in {} |-> 0]

SetDefault(t, k, v) == IF k \in DOMAIN t THEN t ELSE (k :> v) @@ t

\* dict.pop(k) without a default: an absent key raises KeyError
PopRaising(t, k) ==
    IF k \in DOMAIN t THEN [table |-> [x \in DOMAIN t \ {k} |-> t[x]], fault |-> "none"]
    ELSE [table |-> t, fault |-> "KeyError"]

\* dict.pop(k, None): the table without k, and no error when k is absent
Pop(t, k) == [table |-> [x \in DOMAIN t \ {k} |-> t[x]], fault |-> "none"]

\* a provider lookup that never consults the table
OverriddenNever(t, k) == FALSE

Overridden(t, k) == k \in DOMAIN t

-----------------------------------------------------------------------------
(* Service classes *)

Instance(cls, request, params) ==
    [cls |-> cls, request |-> request, debugging_header |-> NoHeader, params |-> params]

BaseDataService_init(cls) == Instance(cls, NoRequest, NoParams)

V1Service_init(request) == Instance("DataService", request, NoParams)

V2Service_init(params) == Instance("DataService", NoRequest, params)

Truthy(s) == s # NoHeader /\ s # ""

bind_context(h, i, request, debugging_header) ==
    [h EXCEPT ![i].request = request, ![i].debugging_header = debugging_header]

\* copies the request but forgets the header
InheritRequestOnly(h, i, parent) ==
    [h EXCEPT ![i].request = h[parent].request]

inherit_context(h, i, parent) ==
    [h EXCEPT ![i].request = h[parent].request,
              ![i].debugging_header = h[parent].debugging_header]

\* an override that does not call super().inherit_context
InheritNothing(h, i, parent) == h

analytics_inherit_context(h, i, parent) == inherit_context(h, i, parent)

\* a fetch step that refuses to run without a request
MockDbRequestStrict(h, i) ==
    IF h[i].request = NoRequest
    THEN [logged |-> <<>>, payload |-> [status |-> "error"], fault |-> "unbound context"]
    ELSE [logged  |-> IF Truthy(h[i].debugging_header)
                      THEN <<[value |-> h[i].debugging_header, client |-> h[i].request]>>
                      ELSE <<>>,
          payload |-> [status |-> "ok"],
          fault   |-> "none"]

\* the fetch step of src/app/main.py: what it logs, what it returns, whether it faults
mock_db_request(h, i) ==
    [logged  |-> IF Truthy(h[i].debugging_header)
                 THEN <<[value |-> h[i].debugging_header, client |-> h[i].request]>>
                 ELSE <<>>,
     payload |-> [status |-> "ok"],
     fault   |-> "none"]

gather_metrics(h, i) ==
    LET r == mock_db_request(h, i)
    IN  [r EXCEPT !.payload = [audit |-> "complete"] @@ r.payload]

\* a finalize step that forgets its key
BuildResponseNoService(h, i) == gather_metrics(h, i)

build_response(h, i) ==
    LET r == gather_metrics(h, i)
    IN  [r EXCEPT !.payload = [service |-> "analytics"] @@ r.payload]

\* the fetch step of src/test_1/main_v1.py; hv is request.headers.get("debugging")
v1_get_request(hv) ==
    [logged  |-> IF Truthy(hv) THEN <<[value |-> hv, client |-> NoRequest]>> ELSE <<>>,
     payload |-> [rows |-> <<"mocked", "data">>]]

v2_get_request(h, i) ==
    [logged |-> <<>>, payload |-> [result |-> h[i].params]]

get_data(r) == [r EXCEPT !.payload = [enriched |-> TRUE] @@ r.payload]

get_payload(r, cls) ==
    LET d == get_data(r)
    IN  [d EXCEPT !.payload = [service |-> cls] @@ d.payload]

-----------------------------------------------------------------------------
(* Initial state: a constructed application, lifespan not yet entered *)

NoDeps == [base |-> 0, audit |-> 0, service |-> 0]
NoCtx == [request |-> NoRequest, debugging_header |-> NoHeader]

InitRequests ==
    /\ arrived = 0
    /\ pc = [r \in Requests |-> "idle"]
    /\ hdr = [r \in Requests |-> NoHeader]
    /\ deps = [r \in Requests |-> NoDeps]
    /\ viaOverride = [r \in Requests |-> FALSE]
    /\ heapAt = [r \in Requests |-> 0]
    /\ epoch = [r \in Requests |-> 0]
    /\ ctx = [r \in Requests |-> NoCtx]
    /\ logs = [r \in Requests |-> <<>>]
    /\ resp = [r \in Requests |-> NoResponse]
    /\ boundDuring = [r \in Requests |-> {}]

Init ==
    /\ variant \in Variants
    /\ dependency_overrides = EmptyTable
    /\ lifespan = "down"
    /\ starts = 0
    /\ built = EmptyTable
    /\ heap = <<>>
    /\ InitRequests
    /\ call = NoCall

\* a and b resolved an instance in common
Shares(a, b) ==
    {deps[a].base, deps[a].audit, deps[a].service}
        \cap {deps[b].base, deps[b].audit, deps[b].service} # {}

\* request b binds a context: every request that uses an instance b uses, and is
\* past its base binding and before its fetch step, records it
Binds(b) ==
    boundDuring' =
        [a \in Requests |->
            IF /\ a # b
               /\ pc[a] \in {"get_audit_service", "get_analytics_service", "ping"}
               /\ Shares(a, b)
            THEN boundDuring[a] \cup {b} ELSE boundDuring[a]]

InFlight(r) == pc[r] \notin {"idle", "done"}
Quiet == \A r \in Requests : ~InFlight(r)

-----------------------------------------------------------------------------
(* Lifespan *)

\* src/app/main.py lines 113-129: construct the three services, setdefault each, yield
LifespanContextStartup ==
    /\ variant = "app"
    /\ lifespan = "down"
    /\ starts < MaxStarts
    /\ Quiet
    /\ LET n == Len(heap)
           b == [k \in AppProviders |->
                   IF k = "provide_base_service_singleton" THEN n + 1
                   ELSE IF k = "provide_audit_service_singleton" THEN n + 2
                   ELSE n + 3]
       IN  /\ heap' = heap \o <<BaseDataService_init("BaseDataService"),
                                BaseDataService_init("AuditDataService"),
                                BaseDataService_init("AnalyticsService")>>
           /\ built' = b
           /\ dependency_overrides' =
                SetDefault(
                  SetDefault(
                    SetDefault(dependency_overrides,
                               "provide_base_service_singleton",
                               b["provide_base_service_singleton"]),
                    "provide_audit_service_singleton",
                    b["provide_audit_service_singleton"]),
                  "provide_analytics_service_singleton",
                  b["provide_analytics_service_singleton"])
    /\ lifespan' = "up"
    /\ starts' = starts + 1
    /\ UNCHANGED <<variant, reqVars, call>>

\* the three pops of src/app/main.py lines 131-133
PopOverrides(t) ==
    LET p1 == Pop(t, "provide_base_service_singleton")
        p2 == IF p1.fault = "none"
              THEN Pop(p1.table, "provide_audit_service_singleton") ELSE p1
        p3 == IF p2.fault = "none"
              THEN Pop(p2.table, "provide_analytics_service_singleton") ELSE p2
    IN  p3

\* src/app/main.py lines 129-133: after the yield, pop the three entries
LifespanContextShutdown ==
    /\ variant = "app"
    /\ lifespan = "up"
    /\ Quiet
    /\ dependency_overrides' = PopOverrides(dependency_overrides).table
    /\ lifespan' = "down"
    /\ UNCHANGED <<variant, starts, built, heap, reqVars, call>>

\* src/test_2/main_v2.py lines 63-74: construct the service, setdefault, yield
LifespanStartup ==
    /\ variant = "v2"
    /\ lifespan = "down"
    /\ starts < MaxStarts
    /\ Quiet
    /\ heap' = Append(heap, V2Service_init(LifespanParams))
    /\ built' = [k \in V2Providers |-> Len(heap) + 1]
    /\ dependency_overrides' =
         SetDefault(dependency_overrides, "di_data_service", Len(heap) + 1)
    /\ lifespan' = "up"
    /\ starts' = starts + 1
    /\ UNCHANGED <<variant, reqVars, call>>

\* src/test_2/main_v2.py line 74: nothing follows the yield
LifespanShutdown ==
    /\ variant = "v2"
    /\ lifespan = "up"
    /\ Quiet
    /\ lifespan' = "down"
    /\ UNCHANGED <<variant, dependency_overrides, starts, built, heap, reqVars, call>>

-----------------------------------------------------------------------------
(* Requests *)

\* the header values request r may carry: "alpha" and "beta" are interchangeable,
\* so "beta" is offered only once an earlier request carried "alpha"
HeaderChoices(r) ==
    {h \in HeaderValues :
        h = "beta" => \E q \in Requests : q < r /\ hdr[q] = "alpha"}

Receive(r, h) ==
    /\ r = arrived + 1
    /\ h \in HeaderChoices(r) \cup {NoHeader}
    /\ r \in Requests
    /\ pc[r] = "idle"
    /\ arrived' = r
    /\ hdr' = [hdr EXCEPT ![r] = h]
    /\ heapAt' = [heapAt EXCEPT ![r] = Len(heap)]
    /\ epoch' = [epoch EXCEPT ![r] = starts]
    /\ viaOverride' =
         [viaOverride EXCEPT ![r] = TopProvider(variant) \in DOMAIN dependency_overrides]

\* src/app/main.py lines 64-79, 85, 91, 98: the framework resolves the three
\* providers of a request, each to its override or to a fresh instance
ResolveProviders(r, h) ==
    /\ variant = "app"
    /\ Receive(r, h)
    /\ LET t  == dependency_overrides
           n  == Len(heap)
           ob == Overridden(t, "provide_base_service_singleton")
           oa == Overridden(t, "provide_audit_service_singleton")
           os == Overridden(t, "provide_analytics_service_singleton")
           nb == IF ob THEN 0 ELSE 1
           na == IF oa THEN 0 ELSE 1
           b  == IF ob THEN t["provide_base_service_singleton"] ELSE n + 1
           a  == IF oa THEN t["provide_audit_service_singleton"] ELSE n + nb + 1
           s  == IF os THEN t["provide_analytics_service_singleton"] ELSE n + nb + na + 1
       IN  /\ heap' = heap
                 \o (IF ob THEN <<>> ELSE <<BaseDataService_init("BaseDataService")>>)
                 \o (IF oa THEN <<>> ELSE <<BaseDataService_init("AuditDataService")>>)
                 \o (IF os THEN <<>> ELSE <<BaseDataService_init("AnalyticsService")>>)
           /\ deps' = [deps EXCEPT ![r] = [base |-> b, audit |-> a, service |-> s]]
    /\ pc' = [pc EXCEPT ![r] = "get_base_service"]
    /\ UNCHANGED <<variant, dependency_overrides, lifeVars, ctx, logs, resp, boundDuring, call>>

\* src/app/main.py lines 82-87
GetBaseService(r) ==
    /\ pc[r] = "get_base_service"
    /\ heap' = bind_context(heap, deps[r].base, r, hdr[r])
    /\ pc' = [pc EXCEPT ![r] = "get_audit_service"]
    /\ Binds(r)
    /\ UNCHANGED <<variant, dependency_overrides, lifeVars, arrived, hdr, deps,
                   viaOverride, heapAt, epoch, ctx, logs, resp, call>>

\* src/app/main.py lines 90-94
GetAuditService(r) ==
    /\ pc[r] = "get_audit_service"
    /\ heap' = inherit_context(heap, deps[r].audit, deps[r].base)
    /\ pc' = [pc EXCEPT ![r] = "get_analytics_service"]
    /\ Binds(r)
    /\ UNCHANGED <<variant, dependency_overrides, lifeVars, arrived, hdr, deps,
                   viaOverride, heapAt, epoch, ctx, logs, resp, call>>

\* src/app/main.py lines 97-101
GetAnalyticsService(r) ==
    /\ pc[r] = "get_analytics_service"
    /\ heap' = analytics_inherit_context(heap, deps[r].service, deps[r].audit)
    /\ pc' = [pc EXCEPT ![r] = "ping"]
    /\ Binds(r)
    /\ UNCHANGED <<variant, dependency_overrides, lifeVars, arrived, hdr, deps,
                   viaOverride, heapAt, epoch, ctx, logs, resp, call>>

\* src/app/main.py lines 139-141
Ping(r) ==
    /\ pc[r] = "ping"
    /\ LET i   == deps[r].service
           out == build_response(heap, i)
       IN  /\ ctx' = [ctx EXCEPT ![r] = [request |-> heap[i].request,
                                         debugging_header |-> heap[i].debugging_header]]
           /\ logs' = [logs EXCEPT ![r] = out.logged]
           /\ resp' = [resp EXCEPT ![r] = out.payload]
    /\ pc' = [pc EXCEPT ![r] = "done"]
    /\ UNCHANGED <<variant, dependency_overrides, lifeVars, heap, arrived, hdr, deps,
                   viaOverride, heapAt, epoch, boundDuring, call>>

\* src/test_1/main_v1.py line 57: Depends(DataService) constructs DataService(request)
DependsDataService(r, h) ==
    /\ variant = "v1"
    /\ Receive(r, h)
    /\ heap' = Append(heap, V1Service_init(r))
    /\ deps' = [deps EXCEPT ![r] = [base |-> 0, audit |-> 0, service |-> Len(heap) + 1]]
    /\ pc' = [pc EXCEPT ![r] = "read_health"]
    /\ UNCHANGED <<variant, dependency_overrides, lifeVars, ctx, logs, resp, boundDuring, call>>

\* src/test_1/main_v1.py lines 55-60
ReadHealthV1(r) ==
    /\ variant = "v1"
    /\ pc[r] = "read_health"
    /\ LET i   == deps[r].service
           q   == heap[i].request
           out == get_payload(v1_get_request(hdr[q]), heap[i].cls)
       IN  /\ ctx' = [ctx EXCEPT ![r] = [request |-> q, debugging_header |-> hdr[q]]]
           /\ logs' = [logs EXCEPT ![r] = out.logged]
           /\ resp' = [resp EXCEPT ![r] = out.payload]
    /\ pc' = [pc EXCEPT ![r] = "done"]
    /\ UNCHANGED <<variant, dependency_overrides, lifeVars, heap, arrived, hdr, deps,
                   viaOverride, heapAt, epoch, boundDuring, call>>

\* src/test_2/main_v2.py lines 49-50, 93: di_data_service or its override
DependsDiDataService(r, q) ==
    /\ variant = "v2"
    /\ Receive(r, NoHeader)
    /\ LET t == dependency_overrides
           o == Overridden(t, "di_data_service")
       IN  /\ heap' = IF o THEN heap ELSE Append(heap, V2Service_init(q))
           /\ deps' = [deps EXCEPT ![r] =
                         [base |-> 0, audit |-> 0,
                          service |-> IF o THEN t["di_data_service"] ELSE Len(heap) + 1]]
    /\ pc' = [pc EXCEPT ![r] = "read_health"]
    /\ UNCHANGED <<variant, dependency_overrides, lifeVars, ctx, logs, resp, boundDuring, call>>

\* src/test_2/main_v2.py lines 91-95
ReadHealthV2(r) ==
    /\ variant = "v2"
    /\ pc[r] = "read_health"
    /\ LET i   == deps[r].service
           out == get_payload(v2_get_request(heap, i), heap[i].cls)
       IN  /\ logs' = [logs EXCEPT ![r] = out.logged]
           /\ resp' = [resp EXCEPT ![r] = out.payload]
    /\ pc' = [pc EXCEPT ![r] = "done"]
    /\ UNCHANGED <<variant, dependency_overrides, lifeVars, heap, arrived, hdr, deps,
                   viaOverride, heapAt, epoch, ctx, boundDuring, call>>

-----------------------------------------------------------------------------
(* The applications serving requests, in flight together *)

Next ==
    \/ LifespanContextStartup
    \/ LifespanContextShutdown
    \/ LifespanStartup
    \/ LifespanShutdown
    \/ \E r \in Requests, h \in HeaderValues : ResolveProviders(r, h)
    \/ \E r \in Requests : GetBaseService(r)
    \/ \E r \in Requests : GetAuditService(r)
    \/ \E r \in Requests : GetAnalyticsService(r)
    \/ \E r \in Requests : Ping(r)
    \/ \E r \in Requests, h \in HeaderValues : DependsDataService(r, h)
    \/ \E r \in Requests : ReadHealthV1(r)
    \/ \E r \in Requests, q \in QueryParams : DependsDiDataService(r, q)
    \/ \E r \in Requests : ReadHealthV2(r)

Spec == Init /\ [][Next]_vars

(* The same applications serving one request at a time *)

NextSeq ==
    \/ LifespanContextStartup
    \/ LifespanContextShutdown
    \/ LifespanStartup
    \/ LifespanShutdown
    \/ Quiet /\ \E r \in Requests, h \in HeaderValues : ResolveProviders(r, h)
    \/ \E r \in Requests : GetBaseService(r)
    \/ \E r \in Requests : GetAuditService(r)
    \/ \E r \in Requests : GetAnalyticsService(r)
    \/ \E r \in Requests : Ping(r)
    \/ Quiet /\ \E r \in Requests, h \in HeaderValues : DependsDataService(r, h)
    \/ \E r \in Requests : ReadHealthV1(r)
    \/ Quiet /\ \E r \in Requests, q \in QueryParams : DependsDiDataService(r, q)
    \/ \E r \in Requests : ReadHealthV2(r)

SpecSeq == Init /\ [][NextSeq]_vars

-----------------------------------------------------------------------------
(* The service classes used directly: construct, bind, inherit, fetch *)

\* the requests and header values a direct caller binds
ClassRequests == {1}
ClassHeaders == {NoHeader, "", "alpha"}

HasInheritContext(c) == c \in {"AuditDataService", "AnalyticsService"}

InitClasses ==
    /\ variant = "app"
    /\ dependency_overrides = EmptyTable
    /\ lifespan = "down"
    /\ starts = 0
    /\ built = EmptyTable
    /\ heap = <<>>
    /\ InitRequests
    /\ call = NoCall

\* src/app/main.py lines 18-20 (inherited by the two subclasses)
Construct(cls) ==
    /\ Len(heap) < MaxInst
    /\ heap' = Append(heap, BaseDataService_init(cls))
    /\ call' = [op |-> "__init__", inst |-> Len(heap) + 1]
    /\ UNCHANGED <<variant, dependency_overrides, lifeVars, reqVars>>

\* src/app/main.py lines 22-25
BindContext(i, request, h) ==
    /\ heap' = bind_context(heap, i, request, h)
    /\ call' = [op |-> "bind_context", inst |-> i]
    /\ UNCHANGED <<variant, dependency_overrides, lifeVars, reqVars>>

\* src/app/main.py lines 40-43 and 54-56
InheritContext(i, parent) ==
    /\ HasInheritContext(heap[i].cls)
    /\ heap' = IF heap[i].cls = "AnalyticsService"
               THEN analytics_inherit_context(heap, i, parent)
               ELSE inherit_context(heap, i, parent)
    /\ call' = [op |-> "inherit_context", inst |-> i]
    /\ UNCHANGED <<variant, dependency_overrides, lifeVars, reqVars>>

FetchResult(op, i, out) ==
    [op |-> op, inst |-> i,
     unbound |-> heap[i].request = NoRequest,
     fault |-> out.fault, payload |-> out.payload, logged |-> out.logged]

\* src/app/main.py lines 27-34
MockDbRequest(i) ==
    /\ call' = FetchResult("mock_db_request", i, mock_db_request(heap, i))
    /\ UNCHANGED <<variant, dependency_overrides, lifeVars, heap, reqVars>>

\* src/app/main.py lines 45-48
GatherMetrics(i) ==
    /\ HasInheritContext(heap[i].cls)
    /\ call' = FetchResult("gather_metrics", i, gather_metrics(heap, i))
    /\ UNCHANGED <<variant, dependency_overrides, lifeVars, heap, reqVars>>

NextClasses ==
    \/ \E c \in {"BaseDataService", "AuditDataService", "AnalyticsService"} : Construct(c)
    \/ \E i \in DOMAIN heap, r \in ClassRequests, h \in ClassHeaders : BindContext(i, r, h)
    \/ \E i \in DOMAIN heap, p \in DOMAIN heap : InheritContext(i, p)
    \/ \E i \in DOMAIN heap : MockDbRequest(i)
    \/ \E i \in DOMAIN heap : GatherMetrics(i)

SpecClasses == InitClasses /\ [][NextClasses]_vars

-----------------------------------------------------------------------------
(* The override table used directly: any table the application may hold *)

TableKeys == AppProviders \cup {"get_base_service"}

Tables ==
    UNION {[d -> 1..MaxFactory] : d \in SUBSET TableKeys}

InitTable ==
    /\ variant = "app"
    /\ dependency_overrides \in Tables
    /\ lifespan = "down"
    /\ starts = 0
    /\ built = EmptyTable
    /\ heap = <<>>
    /\ InitRequests
    /\ call = NoCall

\* src/app/main.py lines 117-125, one setdefault
SetDefaultEntry(k, v) ==
    /\ dependency_overrides' = SetDefault(dependency_overrides, k, v)
    /\ call' = [op |-> "setdefault", before |-> dependency_overrides, fault |-> "none"]
    /\ UNCHANGED <<variant, lifeVars, heap, reqVars>>

\* src/app/main.py lines 131-133, run on whatever the table holds
RemoveOverrides ==
    /\ LET out == PopOverrides(dependency_overrides)
       IN  /\ dependency_overrides' = out.table
           /\ call' = [op |-> "pop", before |-> dependency_overrides, fault |-> out.fault]
    /\ UNCHANGED <<variant, lifeVars, heap, reqVars>>

NextTable ==
    \/ \E k \in AppProviders, v \in 1..MaxFactory : SetDefaultEntry(k, v)
    \/ RemoveOverrides

SpecTable == InitTable /\ [][NextTable]_vars

-----------------------------------------------------------------------------
(* Properties *)

Resolved(r) == pc[r] # "idle"
Done(r) == pc[r] = "done"
Fresh(r) == deps[r].service > heapAt[r]

\* C1: two requests resolved while the override is registered (same startup)
\* get the same instance as their service, the one the table holds; two
\* requests resolved while no override is registered get two distinct
\* instances, each constructed for that request; and the override is
\* registered whenever the lifespan is at its yield.
C1_InstanceIdentity ==
    /\ \A r1 \in Requests, r2 \in Requests :
          (r1 # r2 /\ Resolved(r1) /\ Resolved(r2)) =>
             /\ (viaOverride[r1] /\ viaOverride[r2] /\ epoch[r1] = epoch[r2])
                   => deps[r1].service = deps[r2].service
             /\ (~viaOverride[r1] /\ ~viaOverride[r2])
                   => /\ deps[r1].service # deps[r2].service
                      /\ Fresh(r1) /\ Fresh(r2)
    /\ \A r \in Requests : (Resolved(r) /\ viaOverride[r]) => ~Fresh(r)
    /\ (lifespan = "up") => TopProvider(variant) \in DOMAIN dependency_overrides

C1_Witness ==
    /\ \E r1 \in Requests, r2 \in Requests :
          /\ r1 # r2 /\ Done(r1) /\ Done(r2)
          /\ viaOverride[r1] /\ viaOverride[r2]
          /\ deps[r1].service = deps[r2].service
          /\ deps[r1].service = dependency_overrides[TopProvider(variant)]

\* C2 (as claimed): a request without the debug header never has a debug line
\* logged by its fetch step.
C2_NoHeaderNoLog ==
    \A r \in Requests : (Done(r) /\ hdr[r] = NoHeader) => logs[r] = <<>>

\* C3 (as claimed): the fetch step of a request whose debug header has the
\* (non-empty) value v logs exactly one line, and the line contains v.
C3_HeaderLogsOwnValue ==
    \A r \in Requests :
        (Done(r) /\ variant \in {"app", "v1"} /\ Truthy(hdr[r])) =>
            /\ Len(logs[r]) = 1
            /\ logs[r][1].value = hdr[r]

\* C4: the fetch step of a request A reads a context other than A's own only
\* in the way the claim describes: A and the request B whose context it reads
\* share the overridden instance, and B bound its context after A's base
\* binding and before A's fetch step.  (C4_Witness is the interleaving.)
C4_CrossReadOnlyByRace ==
    \A a \in Requests :
        (Done(a) /\ variant = "app" /\ ctx[a].request # a) =>
            LET b == ctx[a].request
            IN  /\ b \in Requests
                /\ viaOverride[a] /\ viaOverride[b]
                /\ deps[a].service = deps[b].service
                /\ b \in boundDuring[a]
                /\ ctx[a].debugging_header = hdr[b]

C4_Witness ==
    \E a \in Requests, b \in Requests :
        /\ a # b /\ Done(a) /\ variant = "app"
        /\ viaOverride[a] /\ deps[a].service = deps[b].service
        /\ b \in boundDuring[a]
        /\ ctx[a].request = b
        /\ hdr[a] # hdr[b] /\ ctx[a].debugging_header = hdr[b]

\* C5 (as claimed): every response has the key service, and its value is the
\* class name of the instance that handled the request.
C5_ServiceIsClassName ==
    \A r \in Requests :
        Done(r) => /\ "service" \in DOMAIN resp[r]
                   /\ resp[r].service = heap[deps[r].service].cls

\* C5 (amended): every response has the key service; in the two /health
\* variants its value is the class name of the instance, in the /ping
\* application it is the fixed string "analytics".
C5_ServiceKey ==
    \A r \in Requests :
        Done(r) => /\ "service" \in DOMAIN resp[r]
                   /\ resp[r].service = IF variant = "app" THEN "analytics"
                                        ELSE heap[deps[r].service].cls

C5_Witness ==
    \E r \in Requests :
        /\ Done(r) /\ variant = "app" /\ viaOverride[r]
        /\ heap[deps[r].service].cls = "AnalyticsService"
        /\ resp[r].service = "analytics"

\* C7 (as claimed): once the lifespan has run startup and then shutdown, the
\* table holds no entry for a provider that startup registered.
C7_ShutdownRemoves ==
    (lifespan = "down" /\ starts > 0) =>
        \A k \in Providers(variant) : k \notin DOMAIN dependency_overrides

\* C8 (as claimed): after every startup the entry of each provider resolves
\* to the instance that startup constructed.
C8_StartupRegistersBuilt ==
    (lifespan = "up") =>
        \A k \in Providers(variant) :
            /\ k \in DOMAIN dependency_overrides
            /\ dependency_overrides[k] = built[k]

C9_RemovalIdempotent ==
    (call.op = "pop") =>
        /\ call.fault = "none"
        /\ DOMAIN dependency_overrides = DOMAIN call.before \ AppProviders
        /\ \A k \in DOMAIN dependency_overrides :
              dependency_overrides[k] = call.before[k]
        /\ (DOMAIN call.before \cap AppProviders = {})
              => dependency_overrides = call.before
        /\ PopOverrides(dependency_overrides) =
              [table |-> dependency_overrides, fault |-> "none"]

C9_Witness ==
    /\ call.op = "pop"
    /\ DOMAIN call.before \cap AppProviders = {}
    /\ call.before # EmptyTable
    /\ dependency_overrides = call.before

\* C10: with one request in flight at a time, the context a request's fetch
\* step reads, the lines it logs and its response body are those of that
\* request alone, whatever requests were served before it on the same
\* instance.
ExpectedLogs(r) ==
    IF variant = "v2" \/ ~Truthy(hdr[r]) THEN <<>>
    ELSE <<[value |-> hdr[r], client |-> IF variant = "app" THEN r ELSE NoRequest]>>

ExpectedBody(r) ==
    IF variant = "app"
    THEN [status |-> "ok", audit |-> "complete", service |-> "analytics"]
    ELSE IF variant = "v1"
    THEN [rows |-> <<"mocked", "data">>, enriched |-> TRUE, service |-> "DataService"]
    ELSE [result |-> IF viaOverride[r] THEN LifespanParams
                     ELSE heap[deps[r].service].params,
          enriched |-> TRUE, service |-> "DataService"]

C10_SequentialIsolation ==
    \A r \in Requests :
        Done(r) =>
            /\ variant # "v2" =>
                  ctx[r] = [request |-> r, debugging_header |-> hdr[r]]
            /\ logs[r] = ExpectedLogs(r)
            /\ resp[r] = ExpectedBody(r)

C10_Witness ==
    \E r1 \in Requests, r2 \in Requests :
        /\ r1 < r2 /\ Done(r1) /\ Done(r2) /\ variant = "app"
        /\ viaOverride[r1] /\ viaOverride[r2]
        /\ deps[r1].service = deps[r2].service
        /\ Truthy(hdr[r1]) /\ hdr[r2] # hdr[r1]
        /\ ctx[r2] = [request |-> r2, debugging_header |-> hdr[r2]]

====
